---- MODULE Spec2Model ----
(***************************************************************************)
(* Model of sen's session controller (sen/tui/init.py, class UI) and of    *)
(* the process entry point that drives it (sen/cli.py, main).              *)
(*                                                                         *)
(* One step of the model is one handler of the single-threaded urwid loop  *)
(* run to completion (a key press, a view-opening call, notify(), a timer  *)
(* callback), or one step of main() around ui.run().  A handler that       *)
(* redraws may fail inside draw_screen(); the exception then travels out   *)
(* of ui.run() into main()'s except clauses.                               *)
(***************************************************************************)
EXTENDS Integers, Sequences, FiniteSets, TLC

\* ------------------------------------------------------------------ bounds
MaxBuffers == 3      \* buffer objects constructed during one run of main()
MaxNotifs == 2       \* notifications pushed during one run of main()

\* --------------------------------------------------------------- constants
RaceMessage == "rows, render mismatch"

VARIABLES
    pc,                \* position of main(): "start", "loop", "wait", "raised", "returned", "exited"
    debug,             \* args.debug
    exc,               \* exception travelling out of ui.run() (NoExc when none)
    exit_code,         \* exit status of the process (NotExited while running)
    traceback,         \* TRUE when the process died of an uncaught exception
    restored,          \* TRUE once curses.nocbreak/echo/endwin have been called
    buffers,           \* UI.buffers
    current_buffer,    \* UI.current_buffer
    main_list_buffer,  \* UI.main_list_buffer
    notif_bar,         \* UI.notif_bar
    status_bar,        \* UI.status_bar
    mainframe,         \* UI.mainframe (body and footer)
    screen,            \* what draw_screen() last painted
    alarms,            \* callbacks registered with set_alarm_in(10, ...), oldest first
    destroy_calls,     \* number of destroy() calls per buffer object
    next_id,           \* identity of the next buffer object constructed
    next_notif,        \* identity of the next notification widget constructed
    last_event         \* the event whose handler ran last

vars == <<pc, debug, exc, exit_code, traceback, restored, buffers,
          current_buffer, main_list_buffer, notif_bar, status_bar, mainframe,
          screen, alarms, destroy_calls, next_id, next_notif, last_event>>

\* ------------------------------------------------------------------ values
NotExited == -1
NoBuffer == [id |-> 0, kind |-> "None"]                \* Python None
NoPile == [pile |-> FALSE, widget_list |-> <<>>]       \* Python None
NoExc == [type |-> "None", args |-> <<>>]
NoStatusBar == <<>>
EmptyFrame == [body |-> 0, footer |-> <<>>]            \* Frame(SolidFill())

Pile(ws) == [pile |-> TRUE, widget_list |-> ws]
Truthy(p) == p.pile

Levels == {"info", "error"}
Messages == {"m"}

\* exceptions that may leave ui.run()
KeyboardInterrupt == [type |-> "KeyboardInterrupt", args |-> <<>>]
LayoutRace == [type |-> "AssertionError", args |-> <<RaceMessage>>]
AssertOther == [type |-> "AssertionError", args |-> <<"other">>]
AssertBare == [type |-> "AssertionError", args |-> <<>>]
RuntimeFault == [type |-> "Exception", args |-> <<"fault">>]
Faults == {KeyboardInterrupt, LayoutRace, AssertOther, AssertBare, RuntimeFault}

\* draw_screen() either paints or fails urwid's render-size assertion; the
\* other faults reach main() through LoopFault
DrawOutcomes == {NoExc, LayoutRace}

\* --------------------------------------------------------- Python helpers
\* equality of two buffer objects, as used by `in`, list.index, list.remove
BufferEq(a, b) == a.id = b.id

\* widgets compared by what they show instead of by identity
WidgetEqByContent(a, b) == a.message = b.message /\ a.level = b.level

\* equality of two notification widgets, as used by `in` and list.remove
WidgetEq(a, b) == a.id = b.id

\* a membership test that never finds the buffer
BufferInNever(b, list) == FALSE

\* buffer in self.buffers
BufferIn(b, list) == \E i \in 1..Len(list) : BufferEq(list[i], b)

\* list.index(x): zero-based position of the first equal element
ListIndex(list, b) ==
    (CHOOSE i \in 1..Len(list) :
        /\ BufferEq(list[i], b)
        /\ \A j \in 1..(i - 1) : ~BufferEq(list[j], b)) - 1

\* indexing without Python's negative indices
IndexOkNonNegative(list, i) == i >= 0 /\ i < Len(list)

\* list[i] succeeds for -len <= i < len
IndexOk(list, i) == i >= -Len(list) /\ i < Len(list)

\* list[i] with Python's negative indices (i zero-based)
GetItem(list, i) == IF i >= 0 THEN list[i + 1] ELSE list[Len(list) + i + 1]

DropAt(list, k) == [j \in 1..(Len(list) - 1) |-> IF j < k THEN list[j] ELSE list[j + 1]]

\* list.pop() in place of list.remove(x)
RemoveLastBuffer(list, b) == DropAt(list, Len(list))

\* a removal that leaves the list as it was
RemoveNoBuffer(list, b) == list

\* list.remove(x) on the buffer list: drops the first equal element
RemoveBuffer(list, b) == DropAt(list, ListIndex(list, b) + 1)

WidgetIn(w, list) == \E i \in 1..Len(list) : WidgetEq(list[i], w)

\* list.remove(x) on a widget list: drops the first equal element
RemoveWidget(list, w) ==
    DropAt(list, CHOOSE i \in 1..Len(list) :
                    /\ WidgetEq(list[i], w)
                    /\ \A j \in 1..(i - 1) : ~WidgetEq(list[j], w))

\* a check that protects nothing
IsNeverMainList(b) == FALSE

\* isinstance(b, MainListBuffer)
IsMainList(b) == b.kind = "MainList"

\* ------------------------------------------------------------- UI methods
\* the marker put on every label that reads like the current buffer's
build_statusbar_by_name(bufs, cur) ==
    [i \in 1..Len(bufs) |->
        [idx |-> i - 1, display_name |-> bufs[i].kind,
         marked |-> bufs[i].kind = cur.kind]]

\* the right-hand text of the status bar: one label per buffer
build_statusbar(bufs, cur) ==
    [i \in 1..Len(bufs) |->
        [idx |-> i - 1, display_name |-> bufs[i].kind,
         marked |-> BufferEq(bufs[i], cur)]]

Footer(nb, sb) ==
    (IF Truthy(nb) THEN <<[w |-> "notif_bar", rows |-> nb.widget_list]>> ELSE <<>>)
        \o <<[w |-> "status_bar", rows |-> sb]>>

\* a refresh that returns without painting
refresh_unpainted(frame, o) ==
    IF o = NoExc
    THEN UNCHANGED <<screen, pc, exc>>
    ELSE /\ pc' = "raised"
         /\ exc' = o
         /\ UNCHANGED screen

\* refresh(): draw_screen() paints the frame or raises
refresh(frame, o) ==
    IF o = NoExc
    THEN /\ screen' = frame
         /\ UNCHANGED <<pc, exc>>
    ELSE /\ pc' = "raised"
         /\ exc' = o
         /\ UNCHANGED screen

set_main_widget(bufs, nb, cur, redraw, o) ==
    LET sb == build_statusbar(bufs, cur)
        frame == [body |-> cur.id, footer |-> Footer(nb, sb)]
    IN /\ status_bar' = sb
       /\ mainframe' = frame
       /\ redraw => refresh(frame, o)

\* a display_buffer that forgets to record the buffer it shows
display_buffer_stale(bufs, nb, buffer, redraw, o) ==
    /\ current_buffer' = current_buffer
    /\ set_main_widget(bufs, nb, buffer, redraw, o)

\* display_buffer, given the buffer list and overlay the handler leaves;
\* with redraw = FALSE the caller says what becomes of screen, pc and exc
display_buffer(bufs, nb, buffer, redraw, o) ==
    /\ current_buffer' = buffer
    /\ set_main_widget(bufs, nb, buffer, redraw, o)

add_and_display_buffer(buffer, redraw, o) ==
    LET bufs == IF ~BufferIn(buffer, buffers) THEN Append(buffers, buffer) ELSE buffers
    IN /\ buffers' = bufs
       /\ display_buffer(bufs, notif_bar, buffer, redraw, o)

NewBuffer(k) == [id |-> next_id, kind |-> k]

Dispatch(ev) ==
    /\ pc = "wait"
    /\ last_event' = ev

\* display_logs, display_and_follow_logs, inspect, display_help
OpenView(ev, k) ==
    /\ Dispatch(ev)
    /\ next_id <= MaxBuffers
    /\ \E o \in DrawOutcomes : add_and_display_buffer(NewBuffer(k), TRUE, o)
    /\ next_id' = next_id + 1
    /\ UNCHANGED <<debug, exit_code, traceback, restored, main_list_buffer,
                   notif_bar, alarms, destroy_calls, next_notif>>

\* add_and_display_buffer called with a buffer that is already open
AddOpenBuffer ==
    /\ Dispatch("add_and_display_buffer")
    /\ \E i \in 1..Len(buffers), o \in DrawOutcomes :
          add_and_display_buffer(buffers[i], TRUE, o)
    /\ UNCHANGED <<debug, exit_code, traceback, restored, main_list_buffer,
                   notif_bar, alarms, destroy_calls, next_id, next_notif>>

display_logs == OpenView("display_logs", "Logs")
display_and_follow_logs == OpenView("display_and_follow_logs", "Logs")
inspect == OpenView("inspect", "Inspect")
display_help(key) == OpenView(key, "Help")

\* raise of an exception inside a handler, before any redraw
Raise(e) ==
    /\ pc' = "raised"
    /\ exc' = e
    /\ UNCHANGED screen

ValueError == [type |-> "Exception", args |-> <<"ValueError">>]
IndexError == [type |-> "Exception", args |-> <<"IndexError">>]
AttributeError == [type |-> "Exception", args |-> <<"AttributeError">>]

\* the buffer the try/except of pick_and_display_buffer ends up showing
PickTarget(list, i) == IF IndexOk(list, i) THEN GetItem(list, i) ELSE GetItem(list, 0)

pick_and_display_buffer(i, o) ==
    IF Len(buffers) = 1
    THEN UNCHANGED <<current_buffer, status_bar, mainframe, screen, pc, exc>>
    ELSE display_buffer(buffers, notif_bar, PickTarget(buffers, i), TRUE, o)

\* 'n' (delta = 1) and 'N' (delta = -1)
Navigate(key, delta) ==
    /\ Dispatch(key)
    /\ IF BufferIn(current_buffer, buffers)
       THEN \E o \in DrawOutcomes :
                pick_and_display_buffer(ListIndex(buffers, current_buffer) + delta, o)
       ELSE /\ Raise(ValueError)
            /\ UNCHANGED <<current_buffer, status_bar, mainframe>>
    /\ UNCHANGED <<debug, exit_code, traceback, restored, buffers,
                   main_list_buffer, notif_bar, alarms, destroy_calls, next_id,
                   next_notif>>

KeyNext == Navigate("n", 1)
KeyPrev == Navigate("N", -1)

remove_current_buffer(o) ==
    IF IsMainList(current_buffer)
    THEN UNCHANGED <<buffers, destroy_calls, current_buffer, status_bar,
                     mainframe, screen, pc, exc>>
    ELSE LET bufs == RemoveBuffer(buffers, current_buffer)
         IN /\ buffers' = bufs
            /\ destroy_calls' =
                   [destroy_calls EXCEPT ![current_buffer.id] = @ + 1]
            /\ IF Len(bufs) > 0
               THEN display_buffer(bufs, notif_bar, GetItem(bufs, 0), TRUE, o)
               ELSE /\ Raise(IndexError)
                    /\ UNCHANGED <<current_buffer, status_bar, mainframe>>

KeyRemove ==
    /\ Dispatch("x")
    /\ \E o \in DrawOutcomes : remove_current_buffer(o)
    /\ UNCHANGED <<debug, exit_code, traceback, restored, main_list_buffer,
                   notif_bar, alarms, next_id, next_notif>>

KeyHelp == \E key \in {"h", "?"} : display_help(key)

\* 'q' and 'Q': ExitMainLoop ends the loop and ui.run() returns
KeyQuit ==
    /\ \E key \in {"q", "Q"} : Dispatch(key)
    /\ pc' = "returned"
    /\ UNCHANGED <<debug, exc, exit_code, traceback, restored, buffers,
                   current_buffer, main_list_buffer, notif_bar, status_bar,
                   mainframe, screen, alarms, destroy_calls, next_id, next_notif>>

\* any other key falls through every branch of unhandled_input
KeyOther ==
    /\ Dispatch("other")
    /\ UNCHANGED <<pc, debug, exc, exit_code, traceback, restored, buffers,
                   current_buffer, main_list_buffer, notif_bar, status_bar,
                   mainframe, screen, alarms, destroy_calls, next_id, next_notif>>

\* refresh_main_buffer, given the overlay the handler leaves
refresh_main_buffer(nb, o) ==
    IF main_list_buffer = NoBuffer
    THEN /\ Raise(AssertBare)
         /\ UNCHANGED <<current_buffer, status_bar, mainframe>>
    ELSE display_buffer(buffers, nb, main_list_buffer, TRUE, o)

RefreshMainBuffer ==
    /\ Dispatch("refresh_main_buffer")
    /\ \E o \in DrawOutcomes : refresh_main_buffer(notif_bar, o)
    /\ UNCHANGED <<debug, exit_code, traceback, restored, buffers,
                   main_list_buffer, notif_bar, alarms, destroy_calls, next_id,
                   next_notif>>

NewWidget(message, level) == [id |-> next_notif, message |-> message, level |-> level]

\* a new pile that forgets the notifications already shown
OverwritePile(nb, msgs) == Pile(msgs)

\* "stack errors, don't overwrite them"
StackPile(nb, msgs) ==
    IF ~Truthy(nb) THEN Pile(msgs) ELSE Pile(nb.widget_list \o msgs)

\* an empty pile kept in place of None
PileAlways(newpile) == Pile(newpile)

\* what clear() leaves in notif_bar
PileOrNone(newpile) == IF newpile # <<>> THEN Pile(newpile) ELSE NoPile

\* notify(message, level): the alarm is set only if the redraw returned
Notify ==
    /\ Dispatch("notify")
    /\ next_notif <= MaxNotifs
    /\ \E message \in Messages, level \in Levels, o \in DrawOutcomes :
          LET msgs == <<NewWidget(message, level)>>
              nb == StackPile(notif_bar, msgs)
          IN /\ notif_bar' = nb
             /\ refresh_main_buffer(nb, o)
             /\ alarms' = IF o = NoExc /\ main_list_buffer # NoBuffer
                          THEN Append(alarms, msgs[1])
                          ELSE alarms
    /\ next_notif' = next_notif + 1
    /\ UNCHANGED <<debug, exit_code, traceback, restored, buffers,
                   main_list_buffer, destroy_calls, next_id>>

\* the clear(*args) closure of the oldest pending alarm fires
Clear ==
    /\ Dispatch("clear")
    /\ alarms # <<>>
    /\ alarms' = Tail(alarms)
    /\ LET l == Head(alarms)
       IN IF ~notif_bar.pile
          THEN /\ Raise(AttributeError)
               /\ UNCHANGED <<notif_bar, current_buffer, status_bar, mainframe>>
          ELSE LET newpile == IF WidgetIn(l, notif_bar.widget_list)
                              THEN RemoveWidget(notif_bar.widget_list, l)
                              ELSE notif_bar.widget_list
                   nb == PileOrNone(newpile)
               IN /\ notif_bar' = nb
                  /\ \E o \in DrawOutcomes : refresh_main_buffer(nb, o)
    /\ UNCHANGED <<debug, exit_code, traceback, restored, buffers,
                   main_list_buffer, destroy_calls, next_id, next_notif>>

\* an exception raised in the loop outside the handlers above
LoopFault ==
    /\ Dispatch("fault")
    /\ \E e \in Faults : Raise(e)
    /\ UNCHANGED <<debug, exit_code, traceback, restored, buffers,
                   current_buffer, main_list_buffer, notif_bar, status_bar,
                   mainframe, alarms, destroy_calls, next_id, next_notif>>

\* ------------------------------------------------------------------ main()
UIFields == <<buffers, current_buffer, main_list_buffer, notif_bar, status_bar,
              mainframe, screen, alarms, destroy_calls, next_id, next_notif,
              last_event>>

Exit(code, uncaught) ==
    /\ pc' = "exited"
    /\ exit_code' = code
    /\ traceback' = uncaught

\* ui = UI()
Construct ==
    /\ pc = "start"
    /\ pc' = "loop"
    /\ UNCHANGED <<debug, exc, exit_code, traceback, restored>>
    /\ UNCHANGED UIFields

\* UI() raises TerminateApplication
ConstructFails ==
    /\ pc = "start"
    /\ Exit(1, FALSE)
    /\ UNCHANGED <<debug, exc, restored>>
    /\ UNCHANGED UIFields

\* ui.run(): a new main list is added and shown, then the loop starts
Run ==
    /\ pc = "loop"
    /\ next_id <= MaxBuffers
    /\ main_list_buffer' = NewBuffer("MainList")
    /\ add_and_display_buffer(NewBuffer("MainList"), FALSE, NoExc)
    /\ next_id' = next_id + 1
    /\ pc' = "wait"
    /\ screen' = mainframe'
    /\ last_event' = "run"
    /\ UNCHANGED <<debug, exc, exit_code, traceback, restored, notif_bar,
                   alarms, destroy_calls, next_notif>>

\* ui.run() returned: return 0
ReturnNormally ==
    /\ pc = "returned"
    /\ Exit(0, FALSE)
    /\ UNCHANGED <<debug, exc, restored>>
    /\ UNCHANGED UIFields

ExceptKeyboardInterrupt ==
    /\ pc = "raised"
    /\ exc.type = "KeyboardInterrupt"
    /\ Exit(1, FALSE)
    /\ UNCHANGED <<debug, exc, restored>>
    /\ UNCHANGED UIFields

\* an except clause that takes no assertion for the layout race
IsLayoutRaceNever(args) == FALSE

\* ex.args[0] == "rows, render mismatch"
IsLayoutRace(args) == GetItem(args, 0) = RaceMessage

\* ex.args[0] of an assertion without message raises IndexError in the clause
ExceptAssertionError ==
    /\ pc = "raised"
    /\ exc.type = "AssertionError"
    /\ IF ~IndexOk(exc.args, 0)
       THEN Exit(1, TRUE) /\ UNCHANGED exc
       ELSE IF IsLayoutRace(exc.args)
            THEN /\ pc' = "loop"
                 /\ exc' = NoExc
                 /\ UNCHANGED <<exit_code, traceback>>
            ELSE Exit(2, FALSE) /\ UNCHANGED exc
    /\ UNCHANGED <<debug, restored>>
    /\ UNCHANGED UIFields

ExceptException ==
    /\ pc = "raised"
    /\ exc.type = "Exception"
    /\ restored' = TRUE
    /\ IF debug THEN Exit(1, TRUE) ELSE Exit(1, FALSE)
    /\ UNCHANGED <<debug, exc>>
    /\ UNCHANGED UIFields

\* ------------------------------------------------------------ specification
Init ==
    /\ pc = "start"
    /\ debug \in BOOLEAN
    /\ exc = NoExc
    /\ exit_code = NotExited
    /\ traceback = FALSE
    /\ restored = FALSE
    /\ buffers = <<>>
    /\ current_buffer = NoBuffer
    /\ main_list_buffer = NoBuffer
    /\ notif_bar = NoPile
    /\ status_bar = NoStatusBar
    /\ mainframe = EmptyFrame
    /\ screen = EmptyFrame
    /\ alarms = <<>>
    /\ destroy_calls = [i \in 1..MaxBuffers |-> 0]
    /\ next_id = 1
    /\ next_notif = 1
    /\ last_event = "none"

Next ==
    \/ Construct
    \/ ConstructFails
    \/ Run
    \/ KeyNext
    \/ KeyPrev
    \/ KeyRemove
    \/ KeyHelp
    \/ KeyQuit
    \/ KeyOther
    \/ display_logs
    \/ display_and_follow_logs
    \/ inspect
    \/ RefreshMainBuffer
    \/ AddOpenBuffer
    \/ Notify
    \/ Clear
    \/ LoopFault
    \/ ReturnNormally
    \/ ExceptKeyboardInterrupt
    \/ ExceptAssertionError
    \/ ExceptException

Spec == Init /\ [][Next]_vars

\* ------------------------------------------------------------------ claims
Positions(list, b) == {i \in 1..Len(list) : list[i].id = b.id}
MainLists == {i \in 1..Len(buffers) : buffers[i].kind = "MainList"}
Started == pc \in {"wait", "raised", "returned"}

\* C1: once run() has started the buffer list holds exactly one MainList
\* buffer and is never empty.
C1_OneMainList ==
    Started => Cardinality(MainLists) = 1 /\ Len(buffers) >= 1

\* what one press of 'n' (d = 1) or 'N' (d = -1) shows when cur is shown
NavStep(cur, d) ==
    IF Len(buffers) = 1
    THEN cur
    ELSE PickTarget(buffers, ListIndex(buffers, cur) + d)

RECURSIVE NavTimes(_, _, _)
NavTimes(k, cur, d) == IF k = 0 THEN cur ELSE NavTimes(k - 1, NavStep(cur, d), d)

\* C2: 'n' shows the buffer at (index + 1) mod N and 'N' the one at
\* (index - 1 + N) mod N; N presses of either, or one of each, lead back to
\* the buffer shown before; with one buffer both keys change nothing.
C2_CyclicNavigation ==
    [][(pc = "wait" /\ last_event' \in {"n", "N"}) =>
          LET N == Len(buffers)
              idx == (CHOOSE i \in Positions(buffers, current_buffer) : TRUE) - 1
              d == IF last_event' = "n" THEN 1 ELSE -1
          IN /\ Cardinality(Positions(buffers, current_buffer)) = 1
             /\ buffers' = buffers
             /\ current_buffer' = buffers[((idx + d + N) % N) + 1]
             /\ NavTimes(N, current_buffer, d) = current_buffer
             /\ NavStep(NavStep(current_buffer, d), -d) = current_buffer
             /\ N = 1 => UNCHANGED <<pc, exc, current_buffer, notif_bar,
                                     status_bar, mainframe, screen>>]_vars

\* 'n' pressed on the last of three buffers wrapped to the first
C2_Witness ==
    /\ pc = "wait"
    /\ last_event = "n"
    /\ Len(buffers) = 3
    /\ current_buffer = buffers[1]

\* C3: 'x' on a MainList buffer changes neither the buffer list, the current
\* buffer nor the overlay, destroys nothing and raises nothing.
C3_MainListProtected ==
    [][(pc = "wait" /\ last_event' = "x" /\ current_buffer.kind = "MainList") =>
          /\ UNCHANGED <<buffers, current_buffer, notif_bar, destroy_calls,
                         status_bar, mainframe, screen>>
          /\ pc' = "wait"
          /\ exc' = NoExc]_vars

\* 'x' was pressed on a MainList buffer while other buffers were open
C3_Witness ==
    /\ pc = "wait"
    /\ last_event = "x"
    /\ current_buffer.kind = "MainList"
    /\ Len(buffers) >= 2
    /\ \A i \in 1..MaxBuffers : destroy_calls[i] = 0

\* C4: notify() and a notification timer leave the buffer list and the
\* current buffer as they were.
C4_NotifyKeepsNavigation ==
    [][(pc = "wait" /\ last_event' \in {"notify", "clear"}) =>
          UNCHANGED <<buffers, current_buffer>>]_vars

HelpBuffers == {i \in 1..Len(buffers) : buffers[i].kind = "Help"}

\* C5: the buffer list never holds more than one Help buffer.
C5_OneHelp == Cardinality(HelpBuffers) <= 1

Without(list, k) == SubSeq(list, 1, k - 1) \o SubSeq(list, k + 1, Len(list))

\* C6: 'x' on a buffer that is no MainList removes exactly that buffer,
\* keeps the order of the others, destroys it once and shows the first
\* remaining buffer.
C6_RemovalFallback ==
    [][(pc = "wait" /\ last_event' = "x" /\ current_buffer.kind # "MainList") =>
          LET k == CHOOSE i \in Positions(buffers, current_buffer) : TRUE
          IN /\ Cardinality(Positions(buffers, current_buffer)) = 1
             /\ buffers' = Without(buffers, k)
             /\ destroy_calls' = [destroy_calls EXCEPT ![current_buffer.id] = 1]
             /\ destroy_calls[current_buffer.id] = 0
             /\ current_buffer' = buffers'[1]]_vars

\* the middle buffer of three was removed and the first one is shown
C6_Witness ==
    /\ pc = "wait"
    /\ last_event = "x"
    /\ Len(buffers) = 2
    /\ buffers[1].id = 1
    /\ buffers[2].id = 3
    /\ destroy_calls[2] = 1
    /\ current_buffer = buffers[1]

WidgetList == IF notif_bar.pile THEN notif_bar.widget_list ELSE <<>>
OtherThan(list, w) == SelectSeq(list, LAMBDA v : v.id # w.id)

\* C7: notify() appends its notification after the ones present, and a
\* timer removes the notification it was set for and no other, whatever the
\* message and level of the others; the others keep their order.
C7_NotificationIndependence ==
    [][/\ (pc = "wait" /\ last_event' = "notify") =>
             /\ notif_bar'.pile
             /\ Len(notif_bar'.widget_list) = Len(WidgetList) + 1
             /\ SubSeq(notif_bar'.widget_list, 1, Len(WidgetList)) = WidgetList
             /\ notif_bar'.widget_list[Len(WidgetList) + 1].id = next_notif
       /\ (pc = "wait" /\ last_event' = "clear") =>
             /\ \E i \in 1..Len(WidgetList) : WidgetList[i] = Head(alarms)
             /\ Len(OtherThan(WidgetList, Head(alarms))) = Len(WidgetList) - 1
             /\ notif_bar'.widget_list = OtherThan(WidgetList, Head(alarms))
             /\ notif_bar'.pile = (OtherThan(WidgetList, Head(alarms)) # <<>>)]_vars

\* A and B with the same text were pushed; A's timer fired, B is still shown
C7_Witness ==
    /\ pc = "wait"
    /\ last_event = "clear"
    /\ notif_bar.pile
    /\ Len(notif_bar.widget_list) = 1
    /\ notif_bar.widget_list[1] = [id |-> 2, message |-> "m", level |-> "info"]
    /\ alarms = <<[id |-> 2, message |-> "m", level |-> "info"]>>

\* C8: every notification in the overlay has a timer set for it (and is
\* therefore removed in the end).
C8_EveryNotificationHasTimer ==
    pc = "wait" =>
        \A i \in 1..Len(WidgetList) :
            \E j \in 1..Len(alarms) : alarms[j].id = WidgetList[i].id

\* C9: when ui.run() has been entered, at the start or after a layout race,
\* the session is a fresh one: a single MainList buffer, shown, no overlay.
C9_RestartIsFresh ==
    (pc = "wait" /\ last_event = "run") =>
        /\ Len(buffers) = 1
        /\ buffers[1].kind = "MainList"
        /\ current_buffer = buffers[1]
        /\ ~notif_bar.pile

\* C10: exit status 0 exactly on a normal quit; 1 on startup failure, user
\* interrupt and unclassified fault without --debug; 2 on every assertion
\* other than the layout race, which alone never ends the process.
C10_ExitCodes ==
    pc = "exited" =>
        /\ exit_code = 0 <=> (exc = NoExc /\ last_event \in {"q", "Q"})
        /\ (exc = NoExc /\ last_event = "none") => exit_code = 1
        /\ exc.type = "KeyboardInterrupt" => exit_code = 1
        /\ (exc.type = "Exception" /\ ~debug) => exit_code = 1
        /\ exc.type = "AssertionError" =>
              /\ exit_code = 2
              /\ (exc.args = <<>> \/ exc.args[1] # RaceMessage)

\* C11: whenever main() exits after ui.run() was entered, the terminal has
\* been restored (cbreak off, echo on, screen closed).
C11_TerminalRestored ==
    (pc = "exited" /\ last_event # "none") => restored

\* C12: add_and_display_buffer with a buffer that is already open leaves the
\* list as it is and shows that buffer; no buffer is ever in the list twice.
C12_AddIdempotent ==
    [][/\ \A i, j \in 1..Len(buffers') :
             buffers'[i].id = buffers'[j].id => i = j
       /\ (pc = "wait" /\ last_event' = "add_and_display_buffer") =>
             /\ buffers' = buffers
             /\ \E i \in 1..Len(buffers) : current_buffer' = buffers[i]]_vars

\* with three buffers open the first one was added again and is shown
C12_Witness ==
    /\ pc = "wait"
    /\ last_event = "add_and_display_buffer"
    /\ Len(buffers) = 3
    /\ current_buffer = buffers[1]
    /\ screen.body = buffers[1].id

Marked == {i \in 1..Len(status_bar) : status_bar[i].marked}

\* C13: once run() has started the status bar has one label per open buffer,
\* in list order, and the marker is on the current buffer's label alone.
C13_StatusBarTabs ==
    Started =>
        /\ Len(status_bar) = Len(buffers)
        /\ \A i \in 1..Len(buffers) :
              /\ status_bar[i].idx = i - 1
              /\ status_bar[i].display_name = buffers[i].kind
              /\ status_bar[i].marked <=> (buffers[i].id = current_buffer.id)
        /\ Cardinality(Marked) = 1

\* two buffers of the same name are open and only the shown one is marked
C13_Witness ==
    /\ pc = "wait"
    /\ Len(buffers) = 3
    /\ buffers[2].kind = buffers[3].kind
    /\ current_buffer = buffers[2]
    /\ Marked = {2}

\* C14: at every wait point of the loop the current buffer is in the buffer
\* list, so 'n' and 'N' never fail on a lookup; 'n' on the last buffer shows
\* the first one.
C14_CurrentIsOpen ==
    [][/\ pc' = "wait" =>
             Cardinality(Positions(buffers', current_buffer')) = 1
       /\ (pc = "wait" /\ last_event' \in {"n", "N"}) =>
             /\ exc' \in {NoExc, LayoutRace}
             /\ (last_event' = "n" /\ current_buffer = buffers[Len(buffers)]) =>
                   current_buffer' = buffers[1]]_vars

\* the shown buffer was removed and the loop waits with an open buffer shown
C14_Witness ==
    /\ pc = "wait"
    /\ last_event = "x"
    /\ destroy_calls[3] = 1
    /\ Len(buffers) = 2
    /\ current_buffer = buffers[1]

ExpectedTabs ==
    [i \in 1..Len(buffers) |->
        [idx |-> i - 1, display_name |-> buffers[i].kind,
         marked |-> buffers[i].id = current_buffer.id]]

ExpectedFooter ==
    IF notif_bar.pile
    THEN <<[w |-> "notif_bar", rows |-> notif_bar.widget_list],
           [w |-> "status_bar", rows |-> ExpectedTabs]>>
    ELSE <<[w |-> "status_bar", rows |-> ExpectedTabs]>>

\* C15: at every wait point of the loop the painted frame is the state's:
\* the body is the current buffer's widget, the footer the notifications
\* followed by the status bar of the present buffer list.
C15_ScreenAgrees ==
    pc = "wait" =>
        /\ screen.body = current_buffer.id
        /\ screen.footer = ExpectedFooter

\* a timer removed one of two notifications while three buffers were open
C15_Witness ==
    /\ pc = "wait"
    /\ last_event = "clear"
    /\ Len(buffers) = 3
    /\ notif_bar.pile
    /\ Len(screen.footer) = 2
    /\ screen.footer[1].rows = notif_bar.widget_list

\* C16: notif_bar is None exactly when no notification is left; the timer
\* of the last notification makes it None and the footer is then the status
\* bar alone; otherwise the footer is the notifications, then the status bar.
C16_OverlayAbsence ==
    [][/\ notif_bar'.pile <=> (notif_bar'.widget_list # <<>>)
       /\ pc' = "wait" =>
             IF notif_bar'.widget_list = <<>>
             THEN /\ Len(mainframe'.footer) = 1
                  /\ mainframe'.footer[1].w = "status_bar"
             ELSE /\ Len(mainframe'.footer) = 2
                  /\ mainframe'.footer[1] =
                         [w |-> "notif_bar", rows |-> notif_bar'.widget_list]
                  /\ mainframe'.footer[2].w = "status_bar"
       /\ (pc = "wait" /\ last_event' = "clear"
             /\ notif_bar.widget_list = <<Head(alarms)>>) =>
             notif_bar' = NoPile]_vars

\* the timer of the only notification fired and the overlay is gone
C16_Witness ==
    /\ pc = "wait"
    /\ last_event = "clear"
    /\ notif_bar = NoPile
    /\ next_notif = 2
    /\ Len(mainframe.footer) = 1

\* C17: a layout race never ends the process: main() goes back to ui.run()
\* every time, however many restarts came before.
C17_RestartUnbounded ==
    [][/\ (pc = "raised" /\ exc.type = "AssertionError" /\ exc.args = <<RaceMessage>>) =>
             /\ pc' = "loop"
             /\ exit_code' = NotExited
             /\ ~traceback'
       /\ pc' = "exited" => exc' # LayoutRace]_vars

\* the loop runs after its second restart
C17_Witness ==
    /\ pc = "wait"
    /\ last_event = "run"
    /\ Cardinality(MainLists) = 3
    /\ exit_code = NotExited

\* C18: once run() has started, the first buffer of the list is the one
\* main_list_buffer refers to.
C18_FirstIsMainList ==
    Started => (Len(buffers) >= 1 /\ buffers[1] = main_list_buffer)

Destroyed(calls) == {i \in 1..MaxBuffers : calls[i] > 0}
OpenIds(list) == {list[i].id : i \in 1..Len(list)}

\* C19: destroy() is called at most once per buffer, only on the buffer 'x'
\* has just removed, never on a MainList buffer; at a wait point of the loop
\* no destroyed buffer is open or shown.
C19_TeardownExact ==
    [][/\ \A i \in 1..MaxBuffers : destroy_calls'[i] <= 1
       /\ \A i \in 1..MaxBuffers :
             destroy_calls'[i] # destroy_calls[i] =>
                /\ pc = "wait"
                /\ last_event' = "x"
                /\ current_buffer.id = i
                /\ current_buffer.kind # "MainList"
                /\ i \in OpenIds(buffers)
                /\ i \notin OpenIds(buffers')
       /\ pc' = "wait" =>
             /\ Destroyed(destroy_calls') \cap OpenIds(buffers') = {}
             /\ current_buffer'.id \notin Destroyed(destroy_calls')]_vars

\* two buffers were removed in turn and only the main list is left
C19_Witness ==
    /\ pc = "wait"
    /\ destroy_calls[2] = 1
    /\ destroy_calls[3] = 1
    /\ Len(buffers) = 1
    /\ current_buffer = buffers[1]

\* C20: when a notification's timer fires, notif_bar is not None and still
\* holds that notification, so the callback does not fail on the overlay.
C20_TimerFindsOverlay ==
    [][(pc = "wait" /\ last_event' = "clear") =>
          /\ notif_bar.pile
          /\ \E i \in 1..Len(notif_bar.widget_list) :
                notif_bar.widget_list[i].id = Head(alarms).id
          /\ exc' \in {NoExc, LayoutRace}]_vars

\* two notifications were pushed and both timers have fired
C20_Witness ==
    /\ pc = "wait"
    /\ last_event = "clear"
    /\ next_notif = 3
    /\ alarms = <<>>
    /\ notif_bar = NoPile

====
